---- MODULE Spec2Model ----
(***************************************************************************)
(* The client-side agent movement controller of the Mars outpost scene:    *)
(* src/components/pixi/hooks/useAgentController.ts.                        *)
(*                                                                         *)
(* Numbers are JavaScript doubles in the source.  The model keeps them in  *)
(* fixed point: a coordinate is an integer count of 1/Scale grid cells,    *)
(* a time is an integer count of milliseconds.  Every constant of the      *)
(* source (0.1, 0.12, 0.08, 0.05, x + 0.5) is a whole number of            *)
(* hundredths, so sums and comparisons are exact; the one irrational       *)
(* operation, the proportional path step, is rounded to the nearest        *)
(* hundredth.                                                              *)
(***************************************************************************)
EXTENDS Integers, Sequences, FiniteSets, TLC

\* ------------------------------------------------------------------ constants
Scale == 100
MOVEMENT_SPEED == 10
COMMAND_STEP == 12
PATH_STEP == 8
PATH_DELAY_MS == 500
EPSILON == 5
PLAYER_ID == "ares-01"
NPC_ID == "npc-01"
MOVEMENT_ACTIONS == {"move_left", "move_right", "move_up", "move_down"}
MovementKeys == {"w", "a", "s", "d"}
Undefined == -1

\* ------------------------------------------------------------------ bounds
Cols == 4
Rows == 4
ClockStep == 250
MaxTime == 750
MaxInputs == 2
MaxInflight == 2
PathTicks == 40

\* Date.now() when the controller is mounted; the times of the model are
\* counted from it.  Any wall-clock time is far more than PATH_DELAY_MS.
ClockEpoch == 2 * PATH_DELAY_MS

AgentIds == {PLAYER_ID, NPC_ID}

VARIABLES
    agents,         \* useState<AgentState[]>: id -> [position, actions, updatedAt]
    persisted,      \* persistedPositionsRef: id -> [position, updatedAt]
    latest,         \* latestPositionsRef: id -> position
    lastSynced,     \* lastSyncedPositionsRef: id -> position
    pathQueue,      \* pathQueueRef: id -> sequence of waypoints
    pathCooldown,   \* pathCooldownRef: id -> time of the last path step
    keyState,       \* the frame-loop effect's keyState: the keys held down
    buildings,      \* scene.buildings: set of rectangles <<bx, by, bw, bh>> in cells
    inflight,       \* remote calls issued and not yet settled
    now,            \* Date.now()
    lastLocal,      \* history: id -> time of the last local change of its position
    queued,         \* history: id -> when its last path was queued, its last waypoint,
                    \*          and when it was last stepped along
    usedGrid,       \* the cells the last search closed on the PF.Grid it was given
    applied,        \* id -> position the server last applied for an updatePosition call
    unhandled,      \* a promise rejection no handler caught has been reported
    mounted,        \* the component is mounted: listeners and timers are installed
    warned,         \* the remote calls whose failure console.warn has reported
    logCalls,       \* number of logAction calls in flight (MaxInflight stands for more)
    inputs          \* number of external inputs delivered so far

others == <<usedGrid, applied, unhandled, mounted, warned, logCalls>>

vars == <<agents, persisted, latest, lastSynced, pathQueue, pathCooldown,
          keyState, buildings, inflight, now, lastLocal, queued, others, inputs>>

\* ------------------------------------------------------------------ Map helpers
MapSet(m, k, v) == [x \in DOMAIN m \cup {k} |-> IF x = k THEN v ELSE m[x]]
MapDelete(m, k) == [x \in DOMAIN m \ {k} |-> m[x]]
EmptyMap == [x \in {} |-> 0]
Abs(n) == IF n < 0 THEN -n ELSE n

\* ------------------------------------------------------------------ geometry
cols == Cols
rows == Rows

\* isBlocked(x, y): containment in a building rectangle, no rounding.
isBlockedIn_Closed(bs, x, y) ==
    \E b \in bs :
        /\ x >= b[1] * Scale
        /\ x <= (b[1] + b[3]) * Scale
        /\ y >= b[2] * Scale
        /\ y <= (b[2] + b[4]) * Scale

isBlockedIn(bs, x, y) ==
    \E b \in bs :
        /\ x >= b[1] * Scale
        /\ x < (b[1] + b[3]) * Scale
        /\ y >= b[2] * Scale
        /\ y < (b[2] + b[4]) * Scale

isBlocked(x, y) == isBlockedIn(buildings, x, y)

\* max - Number.EPSILON in IEEE-754 binary64.  Number.EPSILON is 2^-52, the
\* spacing of doubles in [1, 2).  For an integer max >= 3 the spacing below
\* max is at least 2^-51, so max - 2^-52 is at most half-way to the next
\* double below and rounds (ties to even) back to max itself.  For max of 1
\* or 2 the difference is representable and lies strictly below max; the
\* fixed-point model then takes the largest value below max.
SubNumberEpsilon(max) == IF max >= 3 * Scale THEN max ELSE max - 1

clampWithinBounds(value, max) ==
    IF max <= 0 THEN value
    ELSE IF value < 0 THEN 0
    ELSE IF value >= max THEN SubNumberEpsilon(max)
    ELSE value

\* ------------------------------------------------------------------ path planner
\* buildNavigationGrid(): the cells of the cols x rows grid left walkable.
\* Cells of a rectangle that fall outside the grid are skipped.
Unwalkable_None(bs) == {}

Unwalkable(bs) ==
    {c \in (0..(cols - 1)) \X (0..(rows - 1)) :
        \E b \in bs : /\ c[1] >= b[1] /\ c[1] < b[1] + b[3]
                      /\ c[2] >= b[2] /\ c[2] < b[2] + b[4]}

isWalkableAt(bs, c) ==
    /\ c[1] >= 0 /\ c[1] < cols
    /\ c[2] >= 0 /\ c[2] < rows
    /\ c \notin Unwalkable(bs)

\* Grid.getNeighbors with DiagonalMovement.Never: up, right, down, left.
getNeighbors(bs, c) ==
    SelectSeq(<< <<c[1], c[2] - 1>>, <<c[1] + 1, c[2]>>,
                 <<c[1], c[2] + 1>>, <<c[1] - 1, c[2]>> >>,
              LAMBDA n : isWalkableAt(bs, n))

manhattan(c, goal) == Abs(c[1] - goal[1]) + Abs(c[2] - goal[2])

\* The binary heap of the open list (heap.js): positions are 0-based, the
\* array is the sequence arr, and nodes are ordered by f = g + h.
RECURSIVE siftdown(_, _, _, _, _)
siftdown(arr, f, startpos, pos, newitem) ==
    IF pos > startpos
    THEN LET parentpos == (pos - 1) \div 2
             parent == arr[parentpos + 1]
         IN  IF f[newitem] < f[parent]
             THEN siftdown([arr EXCEPT ![pos + 1] = parent], f, startpos,
                           parentpos, newitem)
             ELSE [arr EXCEPT ![pos + 1] = newitem]
    ELSE [arr EXCEPT ![pos + 1] = newitem]

RECURSIVE siftupLoop(_, _, _, _, _)
siftupLoop(arr, f, startpos, pos, newitem) ==
    LET endpos == Len(arr)
        leftpos == 2 * pos + 1
        rightpos == leftpos + 1
        childpos == IF rightpos < endpos
                       /\ ~(f[arr[leftpos + 1]] < f[arr[rightpos + 1]])
                    THEN rightpos ELSE leftpos
    IN  IF leftpos < endpos
        THEN siftupLoop([arr EXCEPT ![pos + 1] = arr[childpos + 1]], f,
                        startpos, childpos, newitem)
        ELSE siftdown([arr EXCEPT ![pos + 1] = newitem], f, startpos, pos, newitem)

siftup(arr, f, pos) == siftupLoop(arr, f, pos, pos, arr[pos + 1])

heapPush_Front(arr, f, item) == <<item>> \o arr

heapPush(arr, f, item) ==
    siftdown(Append(arr, item), f, 0, Len(arr), item)

\* Heap.pop(): the array left once the root has been taken.
heapPopRest(arr, f) ==
    LET lastelt == arr[Len(arr)]
        rest == SubSeq(arr, 1, Len(arr) - 1)
    IN  IF Len(rest) > 0 THEN siftup([rest EXCEPT ![1] = lastelt], f, 0) ELSE rest

heapUpdateItem(arr, f, item) ==
    LET pos == (CHOOSE i \in 1..Len(arr) : arr[i] = item) - 1
    IN  siftup(siftdown(arr, f, 0, pos, item), f, pos)

\* The search state: the heap, the opened and closed node sets, and g, f and
\* parent of every opened node.
RECURSIVE relaxNeighbors(_, _, _, _, _)
relaxNeighbors(st, node, ns, i, goal) ==
    IF i > Len(ns) THEN st
    ELSE LET n == ns[i]
             ng == st.g[node] + 1
         IN  IF n \in st.closed
             THEN relaxNeighbors(st, node, ns, i + 1, goal)
             ELSE IF n \notin st.opened \/ ng < st.g[n]
             THEN LET g2 == MapSet(st.g, n, ng)
                      f2 == MapSet(st.f, n, ng + manhattan(n, goal))
                      p2 == MapSet(st.parent, n, node)
                      open2 == IF n \notin st.opened
                               THEN heapPush(st.open, f2, n)
                               ELSE heapUpdateItem(st.open, f2, n)
                  IN  relaxNeighbors([open |-> open2,
                                      opened |-> st.opened \cup {n},
                                      closed |-> st.closed,
                                      g |-> g2, f |-> f2, parent |-> p2],
                                     node, ns, i + 1, goal)
             ELSE relaxNeighbors(st, node, ns, i + 1, goal)

RECURSIVE backtrace(_, _, _)
backtrace(parent, node, acc) ==
    IF node \in DOMAIN parent
    THEN backtrace(parent, parent[node], <<node>> \o acc)
    ELSE <<node>> \o acc

\* The search returns the route and leaves its closed marks on the grid.
RECURSIVE searchLoop(_, _, _)
searchLoop(bs, st, goal) ==
    IF st.open = <<>> THEN [path |-> <<>>, closed |-> st.closed]
    ELSE LET node == st.open[1]
             popped == [st EXCEPT !.open = heapPopRest(st.open, st.f),
                                  !.closed = st.closed \cup {node}]
         IN  IF node = goal
             THEN [path |-> backtrace(st.parent, goal, <<>>), closed |-> popped.closed]
             ELSE searchLoop(bs, relaxNeighbors(popped, node,
                                                getNeighbors(bs, node), 1, goal),
                             goal)

\* AStarFinder.findPath(startX, startY, goalX, goalY, grid) on a grid whose
\* nodes carry the closed marks `marks`: the cells of the route, start and
\* goal included, or the empty sequence; and the marks left behind.
findPathOn(marks, bs, start, goal) ==
    searchLoop(bs,
               [open |-> <<start>>, opened |-> {start}, closed |-> marks,
                g |-> [c \in {start} |-> 0], f |-> [c \in {start} |-> 0],
                parent |-> EmptyMap],
               goal)

\* new PF.Grid(cols, rows) in buildNavigationGrid: every call of computePath
\* searches a grid of its own, whose nodes no search has marked.
NavigationGridMarks_Reused == usedGrid

NavigationGridMarks == {}

roundCell(v) == (2 * v + Scale) \div (2 * Scale)
clampCell(value, max) ==
    IF value < 0 THEN 0 ELSE IF value >= max THEN max - 1 ELSE value

StartCell(from) == <<clampCell(roundCell(from[1]), cols), clampCell(roundCell(from[2]), rows)>>

CellCentre(c) == <<c[1] * Scale + Scale \div 2, c[2] * Scale + Scale \div 2>>

\* computePath(from, to): null, or the list of waypoints.
NullPath == [kind |-> "null", waypoints |-> <<>>]

\* What a call of computePath yields: null or the waypoints, and the marks on
\* the grid it searched; a call that returns before building a grid leaves
\* the last searched grid as it was.
PathOutcome(outcome, marks) ==
    [kind |-> outcome.kind, waypoints |-> outcome.waypoints, marks |-> marks]

\* The part of computePath after findPath: a route of at most one cell is
\* null, any other loses its first cell and is moved to the cell centres.
RouteOutcome_KeepsSingleCell(found) ==
    IF Len(found.path) < 1 THEN PathOutcome(NullPath, found.closed)
    ELSE PathOutcome(
           [kind |-> "path",
            waypoints |-> [i \in 1..(Len(found.path) - 1) |->
                              CellCentre(found.path[i + 1])]],
           found.closed)

RouteOutcome(found) ==
    IF Len(found.path) <= 1 THEN PathOutcome(NullPath, found.closed)
    ELSE PathOutcome(
           [kind |-> "path",
            waypoints |-> [i \in 1..(Len(found.path) - 1) |->
                              CellCentre(found.path[i + 1])]],
           found.closed)

\* The search runs once per call: its result is bound before it is used.
computePathOutcome(bs, from, to) ==
    LET start == StartCell(from)
        goal == StartCell(to)
    IN  IF cols <= 0 \/ rows <= 0 THEN PathOutcome(NullPath, usedGrid)
        ELSE IF isBlockedIn(bs, goal[1] * Scale, goal[2] * Scale)
        THEN PathOutcome(NullPath, usedGrid)
        ELSE CHOOSE outcome \in
                 {RouteOutcome(found) :
                    found \in {findPathOn(NavigationGridMarks, bs, start, goal)}} : TRUE

\* The value the relocation handler tests with `path && path.length > 0`:
\* the waypoints, or <<>> for null.
computePath(bs, from, to) == computePathOutcome(bs, from, to).waypoints

\* ------------------------------------------------------------------ input sets
\* Positions a scene snapshot may carry: inside the grid and outside every
\* building of the scene.
SnapshotPositions == {<<90, 60>>, <<390, 250>>}
\* updatedAt of a snapshot entry: absent, or Date.parse of the server's time.
SnapshotTimes == {Undefined, 2 * ClockStep}
SnapshotActions == {{}}
SnapshotAgent == [position : SnapshotPositions, actions : SnapshotActions,
                  updatedAt : SnapshotTimes]
Snapshots == UNION {[ids -> SnapshotAgent] : ids \in SUBSET AgentIds}
\* Relocation targets a maintain_energy response may name.
RelocationTargets == {<<250, 150>>, <<140, 140>>, <<50, 50>>}
SceneBuildings == {{<<1, 1, 1, 1>>}}
ClockSteps == {ClockStep, 2 * ClockStep}
\* Keys the user presses and actions the command events carry: one per axis
\* direction pair is enough to drive both clamps and both step sizes.
PressedKeys == {"d", "s"}
CommandedActions == {"move_left", "move_right"}

\* ------------------------------------------------------------------ reconciliation
IncomingTs(agent) == IF agent.updatedAt = Undefined THEN 0 ELSE agent.updatedAt

SnapshotWins_Reversed(pers, id, agent) ==
    id \notin DOMAIN pers \/ IncomingTs(agent) < pers[id].updatedAt

SnapshotWins(pers, id, agent) ==
    id \notin DOMAIN pers \/ IncomingTs(agent) > pers[id].updatedAt

RefreshedAgents(pers, s) ==
    [id \in DOMAIN s |->
        IF SnapshotWins(pers, id, s[id])
        THEN s[id]
        ELSE [s[id] EXCEPT !.position = pers[id].position,
                           !.updatedAt = pers[id].updatedAt]]

\* The ids kept in nextPersisted: those of the refreshed agents.
ValidIds_KeepAll(pers, s) == DOMAIN pers \cup DOMAIN s

ValidIds(pers, s) == DOMAIN s

\* nextPersisted: a copy of the stored records, overwritten where the snapshot
\* wins, then pruned to the valid ids.
NextPersisted(pers, s) ==
    [id \in ValidIds(pers, s) |->
        IF id \in DOMAIN s /\ SnapshotWins(pers, id, s[id])
        THEN [position |-> s[id].position, updatedAt |-> IncomingTs(s[id])]
        ELSE pers[id]]

LatestOf(as) == [id \in DOMAIN as |-> as[id].position]

SyncedAfter(synced, as) ==
    [id \in DOMAIN synced \cup DOMAIN as |->
        IF id \in DOMAIN synced THEN synced[id] ELSE as[id].position]

\* ------------------------------------------------------------------ the tick
ActivePath(id) == IF id \in DOMAIN pathQueue THEN pathQueue[id] ELSE <<>>
Cooldown(id) == IF id \in DOMAIN pathCooldown THEN pathCooldown[id] ELSE Undefined

\* (d / dist) * PATH_STEP for dist = sqrt(d2), to the nearest hundredth.
StepAlong(d, d2) ==
    LET n == 4 * PATH_STEP * PATH_STEP * d * d
        m == CHOOSE q \in 0..PATH_STEP :
                 /\ (q = 0 \/ (2 * q - 1) * (2 * q - 1) * d2 <= n)
                 /\ n < (2 * q + 1) * (2 * q + 1) * d2
    IN  IF d < 0 THEN -m ELSE m

\* The path-follow delay: true when the step is skipped.
Throttled(path, cd, t) ==
    /\ Len(path) > 0
    /\ (ClockEpoch + t) - (IF cd = Undefined THEN 0 ELSE ClockEpoch + cd) < PATH_DELAY_MS

\* The step toward the first waypoint: snap onto it and pop it when it is
\* within PATH_STEP, else move PATH_STEP along the direction vector.
PathTarget(pos, path) ==
    LET dx == path[1][1] - pos[1]
        dy == path[1][2] - pos[2]
        d2 == dx * dx + dy * dy
    IN  IF d2 <= PATH_STEP * PATH_STEP
        THEN [position |-> path[1], path |-> Tail(path)]
        ELSE IF d2 > 0
        THEN [position |-> <<pos[1] + StepAlong(dx, d2), pos[2] + StepAlong(dy, d2)>>,
              path |-> path]
        ELSE [position |-> pos, path |-> path]

\* Free movement: the keyboard flags for the player, then the directives.
FreeTargetAs(isPlayer, pos, persistent, keys, speed, step) ==
    <<pos[1] - (IF isPlayer /\ "a" \in keys THEN speed ELSE 0)
             + (IF isPlayer /\ "d" \in keys THEN speed ELSE 0)
             - (IF "move_left" \in persistent THEN step ELSE 0)
             + (IF "move_right" \in persistent THEN step ELSE 0),
      pos[2] - (IF isPlayer /\ "w" \in keys THEN speed ELSE 0)
             + (IF isPlayer /\ "s" \in keys THEN speed ELSE 0)
             - (IF "move_up" \in persistent THEN step ELSE 0)
             + (IF "move_down" \in persistent THEN step ELSE 0)>>

FreeTarget_SameStep(isPlayer, pos, persistent, keys) ==
    FreeTargetAs(isPlayer, pos, persistent, keys, MOVEMENT_SPEED, MOVEMENT_SPEED)

FreeTarget(isPlayer, pos, persistent, keys) ==
    FreeTargetAs(isPlayer, pos, persistent, keys, MOVEMENT_SPEED, COMMAND_STEP)

\* The tentative position before clamping: the path step when a path is
\* queued, free movement otherwise.
Tentative_KeysOnPath(isPlayer, pos, path, actions, keys) ==
    IF Len(path) > 0
    THEN FreeTarget(isPlayer, PathTarget(pos, path).position, actions, keys)
    ELSE FreeTarget(isPlayer, pos, actions, keys)

Tentative(isPlayer, pos, path, actions, keys) ==
    IF Len(path) > 0
    THEN PathTarget(pos, path).position
    ELSE FreeTarget(isPlayer, pos, actions, keys)

\* The early returns of the map body: a throttled path step, an idle
\* non-player agent, a blocked destination, an unchanged position.
Moved_Always(throttled, idle, blocked, same) == ~throttled

Moved(throttled, idle, blocked, same) ==
    ~throttled /\ ~idle /\ ~blocked /\ ~same

\* One agent's pass through the body of prev.map in update(): the agent
\* record returned, and what is left of its queued path and its cooldown.
UpdateAgent(id, agent, path, cd, keys, t) ==
    LET isPlayer == id = PLAYER_ID
        hasPath == Len(path) > 0
        throttled == Throttled(path, cd, t)
        path2 == IF hasPath THEN PathTarget(agent.position, path).path ELSE <<>>
        persistent == IF hasPath THEN {} ELSE agent.actions
        idle == ~hasPath /\ ~isPlayer /\ persistent = {}
        tentative == Tentative(isPlayer, agent.position, path, agent.actions, keys)
        nextX == clampWithinBounds(tentative[1], cols * Scale)
        nextY == clampWithinBounds(tentative[2], rows * Scale)
        moved == Moved(throttled, idle, isBlocked(nextX, nextY),
                       <<nextX, nextY>> = agent.position)
    IN  [agent |-> IF moved
                   THEN [position |-> <<nextX, nextY>>,
                         actions |-> persistent,
                         updatedAt |-> t]
                   ELSE agent,
         path |-> IF throttled THEN path ELSE path2,
         cd |-> IF throttled THEN cd
                ELSE IF path2 # <<>> THEN t ELSE Undefined,
         moved |-> moved]

\* update(): one animation frame, dt milliseconds after the last one.
TickWithin(dt, horizon) ==
    /\ mounted
    /\ now + dt <= horizon
    /\ now' = now + dt
    /\ LET U(id) == UpdateAgent(id, agents[id], ActivePath(id), Cooldown(id),
                                keyState, now + dt)
           here == DOMAIN agents
       IN  /\ agents' = [id \in here |-> U(id).agent]
           /\ pathQueue' =
                [id \in (DOMAIN pathQueue \ here) \cup {i \in here : U(i).path # <<>>} |->
                    IF id \in here THEN U(id).path ELSE pathQueue[id]]
           /\ pathCooldown' =
                [id \in (DOMAIN pathCooldown \ here) \cup {i \in here : U(i).cd # Undefined} |->
                    IF id \in here THEN U(id).cd ELSE pathCooldown[id]]
           /\ persisted' =
                IF PLAYER_ID \in here /\ U(PLAYER_ID).moved
                THEN MapSet(persisted, PLAYER_ID,
                            [position |-> U(PLAYER_ID).agent.position,
                             updatedAt |-> now + dt])
                ELSE persisted
           /\ latest' = [id \in here |-> U(id).agent.position]
           /\ lastLocal' =
                [id \in DOMAIN lastLocal \cup {i \in here : U(i).moved} |->
                    IF id \in here /\ U(id).moved THEN now + dt ELSE lastLocal[id]]
           /\ queued' =
                [id \in DOMAIN queued |->
                    IF /\ id \in here
                       /\ Len(ActivePath(id)) > 0
                       /\ (U(id).moved \/ U(id).path # ActivePath(id))
                    THEN [queued[id] EXCEPT !.last = now + dt]
                    ELSE queued[id]]
    /\ UNCHANGED <<lastSynced, keyState, buildings, inflight, others, inputs>>

Tick(dt) == TickWithin(dt, MaxTime)

\* ------------------------------------------------------------------ inputs
\* Every external input (key event, command event, scene snapshot) counts
\* against MaxInputs.  The listeners exist while the component is mounted.
Input == mounted /\ inputs < MaxInputs /\ inputs' = inputs + 1

\* ------------------------------------------------------------------ keyboard
handleKeyDown(key) ==
    /\ Input
    /\ keyState' = keyState \cup {key}
    /\ UNCHANGED <<agents, persisted, latest, lastSynced, pathQueue, pathCooldown,
                   buildings, inflight, now, lastLocal, queued, others>>

handleKeyUp(key) ==
    /\ Input
    /\ keyState' = keyState \ {key}
    /\ UNCHANGED <<agents, persisted, latest, lastSynced, pathQueue, pathCooldown,
                   buildings, inflight, now, lastLocal, queued, others>>

\* ------------------------------------------------------------------ scene snapshot
\* A new scene prop: the reconciliation effect runs, and the frame-loop
\* effect (whose dependency isBlocked changes with the scene) is torn down
\* and set up again with a fresh keyState.
SceneSnapshot(s) ==
    LET refreshed == RefreshedAgents(persisted, s)
    IN  /\ Input
        /\ agents' = refreshed
        /\ persisted' = NextPersisted(persisted, s)
        /\ latest' = LatestOf(refreshed)
        /\ lastSynced' = SyncedAfter(lastSynced, refreshed)
        /\ keyState' = {}
        /\ lastLocal' =
             [id \in {i \in DOMAIN lastLocal \cap DOMAIN s \cap DOMAIN agents :
                         refreshed[i].position = agents[i].position} |->
                 lastLocal[id]]
        /\ UNCHANGED <<pathQueue, pathCooldown, buildings, inflight, now, queued, others>>

\* ------------------------------------------------------------------ commands
\* void logAgentAction(...): one more logAction call in flight.
LogIssued == IF logCalls < MaxInflight THEN logCalls + 1 ELSE logCalls

\* logAgentAction after its await: the call returned.
LogActionDone ==
    /\ logCalls > 0
    /\ logCalls' = logCalls - 1
    /\ UNCHANGED <<agents, persisted, latest, lastSynced, pathQueue, pathCooldown,
                   keyState, buildings, inflight, now, lastLocal, queued,
                   usedGrid, applied, unhandled, mounted, warned, inputs>>

\* logAgentAction's catch: the failure is logged to the console.
LogActionFailed ==
    /\ logCalls > 0
    /\ logCalls' = logCalls - 1
    /\ warned' = warned \cup {"logAction"}
    /\ UNCHANGED <<agents, persisted, latest, lastSynced, pathQueue, pathCooldown,
                   keyState, buildings, inflight, now, lastLocal, queued,
                   usedGrid, applied, unhandled, mounted, inputs>>

MovementCommand_Accumulate(agentId, action) ==
    /\ Input
    /\ agents' = [id \in DOMAIN agents |->
                    IF id = agentId
                    THEN [agents[id] EXCEPT !.actions = agents[id].actions \cup {action}]
                    ELSE agents[id]]
    /\ latest' = LatestOf(agents')
    /\ logCalls' = LogIssued
    /\ UNCHANGED <<persisted, lastSynced, pathQueue, pathCooldown, keyState,
                   buildings, inflight, now, lastLocal, queued, usedGrid,
                   applied, unhandled, mounted, warned>>

\* handleAgentCommand with a movement action.
MovementCommand(agentId, action) ==
    /\ Input
    /\ agents' = [id \in DOMAIN agents |->
                    IF id = agentId THEN [agents[id] EXCEPT !.actions = {action}]
                    ELSE agents[id]]
    /\ latest' = LatestOf(agents')
    /\ logCalls' = LogIssued
    /\ UNCHANGED <<persisted, lastSynced, pathQueue, pathCooldown, keyState,
                   buildings, inflight, now, lastLocal, queued, usedGrid,
                   applied, unhandled, mounted, warned>>

\* handleAgentCommand with maintain_energy: the remote call is issued; its
\* continuation closes over the computePath of the current scene.
MaintainEnergyCommand(agentId) ==
    /\ Input
    /\ Cardinality(inflight) < MaxInflight
    /\ inflight' = inflight \cup
                     {[kind |-> "maintainEnergy", agentId |-> agentId,
                       position |-> <<0, 0>>, scene |-> buildings,
                       applied |-> FALSE]}
    /\ logCalls' = LogIssued
    /\ UNCHANGED <<agents, persisted, latest, lastSynced, pathQueue, pathCooldown,
                   keyState, buildings, now, lastLocal, queued, usedGrid,
                   applied, unhandled, mounted, warned>>

\* setAgents(updater) from a continuation: React drops the update once the
\* component is unmounted, and the latest-positions effect no longer runs.
SetAgents_Dropped(next) == agents

SetAgents(next) == IF mounted THEN next ELSE agents

\* .then of maintainEnergy with payload.relocation = {id, position}.
MaintainEnergyRelocation(call, id, target) ==
    /\ call \in inflight
    /\ call.kind = "maintainEnergy"
    /\ inflight' = inflight \ {call}
    /\ IF id \in DOMAIN latest
       THEN \E outcome \in {computePathOutcome(call.scene, latest[id], target)} :
            LET path == outcome.waypoints
            IN  /\ usedGrid' = outcome.marks
                /\ IF Len(path) > 0
                   THEN /\ pathQueue' = MapSet(pathQueue, id, path)
                        /\ pathCooldown' = MapSet(pathCooldown, id, now)
                        /\ agents' = SetAgents([a \in DOMAIN agents |->
                                        IF a = id
                                        THEN [agents[a] EXCEPT !.actions = {},
                                                               !.updatedAt = now]
                                        ELSE agents[a]])
                        /\ latest' = IF mounted THEN LatestOf(agents') ELSE latest
                        /\ queued' = MapSet(queued, id,
                                            [at |-> now, goal |-> path[Len(path)],
                                             last |-> now])
                        /\ UNCHANGED <<persisted, lastSynced, lastLocal>>
                   ELSE /\ pathCooldown' = MapDelete(pathCooldown, id)
                        /\ persisted' = MapSet(persisted, id,
                                               [position |-> target, updatedAt |-> now])
                        /\ lastSynced' = MapSet(lastSynced, id, target)
                        /\ agents' = SetAgents([a \in DOMAIN agents |->
                                        IF a = id
                                        THEN [position |-> target,
                                              actions |-> {},
                                              updatedAt |-> now]
                                        ELSE agents[a]])
                        /\ latest' = IF mounted THEN LatestOf(agents')
                                     ELSE MapSet(latest, id, target)
                        /\ lastLocal' = IF mounted /\ id \in DOMAIN agents
                                        THEN MapSet(lastLocal, id, now)
                                        ELSE lastLocal
                        /\ UNCHANGED <<pathQueue, queued>>
       ELSE UNCHANGED <<agents, persisted, latest, lastSynced, pathQueue,
                        pathCooldown, lastLocal, queued, usedGrid>>
    /\ UNCHANGED <<keyState, buildings, now, applied, unhandled, mounted,
                   warned, logCalls, inputs>>

\* .then of maintainEnergy without a relocation.
MaintainEnergySettled(call) ==
    /\ call \in inflight
    /\ call.kind = "maintainEnergy"
    /\ inflight' = inflight \ {call}
    /\ UNCHANGED <<agents, persisted, latest, lastSynced, pathQueue, pathCooldown,
                   keyState, buildings, now, lastLocal, queued, others, inputs>>

\* .catch of maintainEnergy: the failure is logged.
MaintainEnergyFailed_DropsPath(call) ==
    /\ call \in inflight
    /\ call.kind = "maintainEnergy"
    /\ inflight' = inflight \ {call}
    /\ warned' = warned \cup {"maintainEnergy"}
    /\ pathQueue' = MapDelete(pathQueue, call.agentId)
    /\ UNCHANGED <<agents, persisted, latest, lastSynced, pathCooldown,
                   keyState, buildings, now, lastLocal, queued, usedGrid,
                   applied, unhandled, mounted, logCalls, inputs>>

MaintainEnergyFailed(call) ==
    /\ call \in inflight
    /\ call.kind = "maintainEnergy"
    /\ inflight' = inflight \ {call}
    /\ warned' = warned \cup {"maintainEnergy"}
    /\ UNCHANGED <<agents, persisted, latest, lastSynced, pathQueue, pathCooldown,
                   keyState, buildings, now, lastLocal, queued, usedGrid,
                   applied, unhandled, mounted, logCalls, inputs>>

\* ------------------------------------------------------------------ position sync
Drifted_Always(id) == TRUE

Drifted(id) ==
    \/ id \notin DOMAIN lastSynced
    \/ Abs(lastSynced[id][1] - latest[id][1]) > EPSILON
    \/ Abs(lastSynced[id][2] - latest[id][2]) > EPSILON

\* The setInterval callback: persistAgentPosition for the player when it drifted.
SyncInterval ==
    /\ mounted
    /\ PLAYER_ID \in DOMAIN latest
    /\ Drifted(PLAYER_ID)
    /\ Cardinality(inflight) < MaxInflight
    /\ inflight' = inflight \cup
                     {[kind |-> "updatePosition", agentId |-> PLAYER_ID,
                       position |-> latest[PLAYER_ID], scene |-> {},
                       applied |-> FALSE]}
    /\ UNCHANGED <<agents, persisted, latest, lastSynced, pathQueue, pathCooldown,
                   keyState, buildings, now, lastLocal, queued, others, inputs>>

\* The PUT of updateAgentPosition reaches the server, which stores the position.
UpdatePositionApplied(call) ==
    /\ call \in inflight
    /\ call.kind = "updatePosition"
    /\ ~call.applied
    /\ inflight' = (inflight \ {call}) \cup {[call EXCEPT !.applied = TRUE]}
    /\ applied' = MapSet(applied, call.agentId, call.position)
    /\ UNCHANGED <<agents, persisted, latest, lastSynced, pathQueue, pathCooldown,
                   keyState, buildings, now, lastLocal, queued, usedGrid,
                   unhandled, mounted, warned, logCalls, inputs>>

\* .then of updateAgentPosition: the response of a stored position arrives.
UpdatePositionDone(call) ==
    /\ call \in inflight
    /\ call.kind = "updatePosition"
    /\ call.applied
    /\ inflight' = inflight \ {call}
    /\ lastSynced' = MapSet(lastSynced, call.agentId, call.position)
    /\ UNCHANGED <<agents, persisted, latest, pathQueue, pathCooldown,
                   keyState, buildings, now, lastLocal, queued, others, inputs>>

\* .catch of updateAgentPosition: logged and rethrown.  The caller discarded
\* the promise with `void`, so nothing handles the rejection.
UpdatePositionFailed(call) ==
    /\ call \in inflight
    /\ call.kind = "updatePosition"
    /\ inflight' = inflight \ {call}
    /\ unhandled' = TRUE
    /\ warned' = warned \cup {"updatePosition"}
    /\ UNCHANGED <<agents, persisted, latest, lastSynced, pathQueue, pathCooldown,
                   keyState, buildings, now, lastLocal, queued, usedGrid,
                   applied, mounted, logCalls, inputs>>

\* ------------------------------------------------------------------ teardown
\* The effects' cleanups: listeners removed, frame cancelled, interval cleared.
Unmount ==
    /\ mounted
    /\ mounted' = FALSE
    /\ UNCHANGED <<agents, persisted, latest, lastSynced, pathQueue, pathCooldown,
                   keyState, buildings, inflight, now, lastLocal, queued,
                   usedGrid, applied, unhandled, warned, logCalls, inputs>>

\* ------------------------------------------------------------------ specification
\* The controller once mounted on a scene: the reconciliation effect has run
\* against empty records.
InitOn(scenes, layouts) ==
    /\ buildings \in layouts
    /\ \E s \in scenes :
         /\ agents = RefreshedAgents(EmptyMap, s)
         /\ persisted = NextPersisted(EmptyMap, s)
         /\ latest = LatestOf(RefreshedAgents(EmptyMap, s))
         /\ lastSynced = SyncedAfter(EmptyMap, RefreshedAgents(EmptyMap, s))
    /\ pathQueue = EmptyMap
    /\ pathCooldown = EmptyMap
    /\ keyState = {}
    /\ inflight = {}
    /\ now = 0
    /\ lastLocal = EmptyMap
    /\ queued = EmptyMap
    /\ usedGrid = {}
    /\ applied = EmptyMap
    /\ unhandled = FALSE
    /\ mounted = TRUE
    /\ warned = {}
    /\ logCalls = 0
    /\ inputs = 0

\* The scenes the controller is mounted on: both agents present, the player
\* near the right edge of the grid and the other agent beside the building.
InitialScenes ==
    {s \in Snapshots : /\ DOMAIN s = AgentIds
                       /\ s[PLAYER_ID].position = <<390, 250>>
                       /\ s[NPC_ID].position = <<90, 60>>}

Init == InitOn(InitialScenes, SceneBuildings)

\* Movement, reconciliation and relocation.  The position sync reads the
\* latest positions and writes only the last-synced ones, and the logAction
\* calls write nothing: both run under SpecSync.

Next ==
    \/ \E dt \in ClockSteps : Tick(dt)
    \/ \E key \in PressedKeys : handleKeyDown(key)
    \/ \E key \in PressedKeys : handleKeyUp(key)
    \/ \E s \in Snapshots : SceneSnapshot(s)
    \/ \E id \in AgentIds, action \in CommandedActions : MovementCommand(id, action)
    \/ \E id \in AgentIds : MaintainEnergyCommand(id)
    \/ \E call \in inflight, id \in AgentIds, target \in RelocationTargets :
          MaintainEnergyRelocation(call, id, target)
    \/ \E call \in inflight : MaintainEnergySettled(call)
    \/ \E call \in inflight : MaintainEnergyFailed(call)

Spec == Init /\ [][Next]_vars

\* Path following on its own: commands issued at mount, each answered with a
\* relocation of its agent until that agent has a path, early enough to leave
\* PathTicks ticks before the horizon, and ticks spaced by exactly the
\* path-follow delay.
PathTargets == {<<200, 100>>, <<300, 300>>}
PathHorizon == (PathTicks + 2) * PATH_DELAY_MS

PathScenes == {s \in InitialScenes : \A id \in DOMAIN s : s[id].updatedAt = Undefined}

InitPath == InitOn(PathScenes, SceneBuildings)

NextPath ==
    \/ \E id \in AgentIds : now = 0 /\ MaintainEnergyCommand(id)
    \/ \E call \in inflight, target \in PathTargets :
          /\ call.agentId \notin DOMAIN queued
          /\ now + PathTicks * PATH_DELAY_MS <= PathHorizon
          /\ MaintainEnergyRelocation(call, call.agentId, target)
    \/ TickWithin(PATH_DELAY_MS, PathHorizon)

SpecPath == InitPath /\ [][NextPath]_vars

\* The planner on its own: scenes and building layouts drawn from bounded
\* sets, relocations applying computePath to them, and no frame in between.
PlannerLayouts ==
    { {},
      {<<1, 1, 1, 1>>},
      {<<1, 0, 1, 3>>, <<3, 2, 2, 1>>},
      {<<0, 2, 4, 1>>} }
PlannerPositions == {<<10, 150>>, <<250, 349>>, <<400, 0>>}
PlannerTargets ==
    {<<200, 100>>, <<50, 50>>, <<300, 300>>, <<0, 349>>, <<400, 400>>, <<149, 250>>}
PlannerScenes ==
    {s \in [AgentIds -> [position : PlannerPositions \cup {<<90, 60>>},
                         actions : {{}}, updatedAt : {Undefined}]] :
        s[NPC_ID].position = <<90, 60>>}

InitPlanner == InitOn(PlannerScenes, PlannerLayouts)

\* One call at a time, answered with a relocation of the agent it was issued
\* for, each agent relocated once.
NextPlanner ==
    \/ \E id \in AgentIds : inflight = {} /\ MaintainEnergyCommand(id)
    \/ \E call \in inflight, target \in PlannerTargets :
          /\ call.agentId \notin DOMAIN queued \cup DOMAIN lastLocal
          /\ MaintainEnergyRelocation(call, call.agentId, target)
    \/ \E call \in inflight : MaintainEnergySettled(call)

SpecPlanner == InitPlanner /\ [][NextPlanner]_vars

\* The position sync on its own: the player driven by keys and a command,
\* the sync timer, the updatePosition calls reaching the store and being
\* answered in any order, and the logAction calls.
NextSync ==
    \/ \E dt \in ClockSteps : Tick(dt)
    \/ \E key \in PressedKeys : handleKeyDown(key)
    \/ \E key \in PressedKeys : handleKeyUp(key)
    \/ \E action \in CommandedActions : MovementCommand(PLAYER_ID, action)
    \/ LogActionDone
    \/ LogActionFailed
    \/ SyncInterval
    \/ \E call \in inflight : UpdatePositionApplied(call)
    \/ \E call \in inflight : UpdatePositionDone(call)
    \/ \E call \in inflight : UpdatePositionFailed(call)

SpecSync == InitPath /\ [][NextSync]_vars

\* Teardown: the player moved by a key and by relocations, one with a route
\* and one without, the controller unmounted at any moment, and the remote
\* calls then in flight completing afterwards.
TeardownTargets == {<<250, 150>>, <<50, 50>>}

NextTeardown ==
    \/ Tick(ClockStep)
    \/ handleKeyDown("s")
    \/ MaintainEnergyCommand(PLAYER_ID)
    \/ \E call \in inflight, target \in TeardownTargets :
          MaintainEnergyRelocation(call, call.agentId, target)
    \/ \E call \in inflight : MaintainEnergySettled(call)
    \/ \E call \in inflight : MaintainEnergyFailed(call)
    \/ LogActionDone
    \/ LogActionFailed
    \/ SyncInterval
    \/ \E call \in inflight : UpdatePositionApplied(call)
    \/ \E call \in inflight : UpdatePositionDone(call)
    \/ \E call \in inflight : UpdatePositionFailed(call)
    \/ Unmount

SpecTeardown == InitPath /\ [][NextTeardown]_vars

\* Reconciliation against calls in flight: the player moved by a key and by
\* relocations, snapshots without timestamps that keep or drop either agent,
\* and the position sync.
RemovalSnapshots ==
    {s \in Snapshots : \A id \in DOMAIN s : s[id].updatedAt = Undefined}

NextRemoval ==
    \/ Tick(ClockStep)
    \/ handleKeyDown("s")
    \/ \E s \in RemovalSnapshots : SceneSnapshot(s)
    \/ MaintainEnergyCommand(PLAYER_ID)
    \/ \E call \in inflight, target \in TeardownTargets :
          MaintainEnergyRelocation(call, call.agentId, target)
    \/ SyncInterval
    \/ \E call \in inflight : UpdatePositionApplied(call)
    \/ \E call \in inflight : UpdatePositionDone(call)
    \/ \E call \in inflight : UpdatePositionFailed(call)

SpecRemoval == InitPath /\ [][NextRemoval]_vars

\* ------------------------------------------------------------------ claims
TickStep == \E dt \in ClockSteps : Tick(dt)

InBounds(pos) ==
    /\ 0 <= pos[1] /\ pos[1] < cols * Scale
    /\ 0 <= pos[2] /\ pos[2] < rows * Scale

\* C1: after every tick, every agent of the table is inside the grid:
\* 0 <= x < cols and 0 <= y < rows.
C1_TickKeepsAgentsInBounds ==
    [][TickStep => \A id \in DOMAIN agents' : InBounds(agents'[id].position)]_vars

\* C2: after every tick, no agent of the table is inside a building rectangle.
C2_TickLeavesNoAgentInBuilding ==
    [][TickStep =>
         \A id \in DOMAIN agents' :
            ~isBlocked(agents'[id].position[1], agents'[id].position[2])]_vars

\* C3: reconciling a snapshot whose entry for an agent carries a timestamp
\* older than or equal to the time of that agent's last local position change
\* leaves the agent's position unchanged, for the player and for any other agent.
C3_OlderSnapshotKeepsLocalPosition ==
    [][\A s \in Snapshots :
         SceneSnapshot(s) =>
            \A id \in DOMAIN s \cap DOMAIN lastLocal :
               (s[id].updatedAt # Undefined /\ s[id].updatedAt <= lastLocal[id])
                  => agents'[id].position = agents[id].position]_vars

\* C4: a snapshot entry strictly newer than the recorded timestamp of its agent,
\* or for an agent without a record, is adopted: the agent takes the snapshot's
\* position and the recorded timestamp becomes the snapshot's.
C4_NewerSnapshotAdopted ==
    [][\A s \in Snapshots :
         SceneSnapshot(s) =>
            \A id \in DOMAIN s :
               (id \notin DOMAIN persisted
                  \/ IncomingTs(s[id]) > persisted[id].updatedAt)
               => /\ agents'[id].position = s[id].position
                  /\ persisted'[id].position = s[id].position
                  /\ persisted'[id].updatedAt = IncomingTs(s[id])]_vars

\* C4 witness: the non-player agent, mounted at (0.9, 0.6) with no timestamp,
\* has taken the position and the timestamp of a later, newer snapshot.
C4_Witness ==
    /\ NPC_ID \in DOMAIN agents
    /\ inputs = 1
    /\ now > 0
    /\ agents[NPC_ID].position = <<390, 250>>
    /\ agents[NPC_ID].updatedAt = 2 * ClockStep
    /\ persisted[NPC_ID] = [position |-> <<390, 250>>, updatedAt |-> 2 * ClockStep]

\* The sets of held keys and of directives a tick is compared under: none,
\* each single one, and all of them.
NoneOneOrAll(S) == {T \in SUBSET S : Cardinality(T) <= 1 \/ T = S}

\* C5: in a tick that finds a queued path for an agent, the agent's position
\* after the tick is the one the tick computes under any other set of held
\* keys and any other set of directives.
C5_PathPrecedence ==
    [][(now' # now /\ TickStep) =>
         \A id \in DOMAIN agents :
            Len(ActivePath(id)) > 0 =>
               \A keys \in NoneOneOrAll(MovementKeys),
                  acts \in NoneOneOrAll(MOVEMENT_ACTIONS) :
                  UpdateAgent(id, [agents[id] EXCEPT !.actions = acts],
                              ActivePath(id), Cooldown(id), keys, now').agent.position
                     = agents'[id].position]_vars

\* C5 witness: the player has just made a path step while a key was held.
C5_Witness ==
    /\ PLAYER_ID \in DOMAIN pathQueue
    /\ PLAYER_ID \in DOMAIN pathCooldown
    /\ PLAYER_ID \in DOMAIN lastLocal
    /\ pathCooldown[PLAYER_ID] = now
    /\ lastLocal[PLAYER_ID] = now
    /\ keyState # {}

\* C7: a movement command sets the addressed agent's directives to exactly the
\* commanded action and changes neither its position nor its timestamp, nor
\* any other agent's record.
C7_CommandReplacesDirectives ==
    [][\A agentId \in AgentIds, action \in MOVEMENT_ACTIONS :
         MovementCommand(agentId, action) =>
            /\ DOMAIN agents' = DOMAIN agents
            /\ persisted' = persisted
            /\ \A id \in DOMAIN agents :
                  IF id = agentId
                  THEN /\ agents'[id].actions = {action}
                       /\ agents'[id].position = agents[id].position
                       /\ agents'[id].updatedAt = agents[id].updatedAt
                  ELSE agents'[id] = agents[id]]_vars

\* C7 witness: the non-player agent moved left under move_left and now holds
\* move_right alone.
C7_Witness ==
    /\ NPC_ID \in DOMAIN agents
    /\ agents[NPC_ID].position = <<90 - COMMAND_STEP, 60>>
    /\ agents[NPC_ID].actions = {"move_right"}

RowFree(y) == \A b \in buildings : ~(y >= b[2] * Scale /\ y < (b[2] + b[4]) * Scale)

\* C8: a tick moves a non-player agent without a queued path whose only
\* directive is move_right, on a row free of buildings and short of the right
\* edge, by exactly COMMAND_STEP along x; y and the directive are unchanged.
C8_CommandedStepAccumulates ==
    [][TickStep =>
         \A id \in DOMAIN agents \ {PLAYER_ID} :
            (/\ Len(ActivePath(id)) = 0
             /\ agents[id].actions = {"move_right"}
             /\ agents[id].position[1] + COMMAND_STEP < cols * Scale
             /\ RowFree(agents[id].position[2]))
            => /\ agents'[id].position =
                    <<agents[id].position[1] + COMMAND_STEP, agents[id].position[2]>>
               /\ agents'[id].actions = {"move_right"}]_vars

\* C8 witness: three consecutive ticks took the agent from x0 to x0 + 3 steps.
C8_Witness ==
    /\ NPC_ID \in DOMAIN agents
    /\ now = 3 * ClockStep
    /\ agents[NPC_ID].position = <<90 + 3 * COMMAND_STEP, 60>>
    /\ agents[NPC_ID].actions = {"move_right"}
    /\ agents[NPC_ID].updatedAt = now

\* C9: a tick leaves a non-player agent without a queued path and without
\* directives unchanged in every field, and leaves its entries of the
\* persisted and latest position maps as they were.
C9_IdleAgentUnchanged ==
    [][TickStep =>
         \A id \in DOMAIN agents \ {PLAYER_ID} :
            (Len(ActivePath(id)) = 0 /\ agents[id].actions = {})
            => /\ agents'[id] = agents[id]
               /\ (id \in DOMAIN persisted) = (id \in DOMAIN persisted')
               /\ (id \in DOMAIN persisted => persisted'[id] = persisted[id])
               /\ latest'[id] = latest[id]]_vars

\* C9 witness: ticks have passed, the player has moved, and the idle agent is
\* where the scene put it, with the scene's absent timestamp.
C9_Witness ==
    /\ now = 3 * ClockStep
    /\ NPC_ID \in DOMAIN agents
    /\ PLAYER_ID \in DOMAIN lastLocal
    /\ agents[NPC_ID] = [position |-> <<90, 60>>, actions |-> {}, updatedAt |-> Undefined]
    /\ NPC_ID \notin DOMAIN pathQueue
    /\ inputs = 1

\* C6: an agent with a queued path reaches the path's last waypoint exactly,
\* and its queue entry is removed, within PathTicks ticks spaced by the
\* path-follow delay (enough for every route of the grid).
C6_PathCompletes ==
    \A id \in DOMAIN queued :
       now - queued[id].at >= PathTicks * PATH_DELAY_MS
          => /\ id \notin DOMAIN pathQueue
             /\ agents[id].position = queued[id].goal

\* The cell a coordinate rounds to (halves upwards), clamped into 0..max-1.
NearestCell(v, max) ==
    LET r == CHOOSE c \in -1..(max + 1) :
                 2 * c * Scale - Scale <= 2 * v /\ 2 * v < 2 * c * Scale + Scale
    IN  IF r < 0 THEN 0 ELSE IF r > max - 1 THEN max - 1 ELSE r

CellOf(wp) == <<(wp[1] - Scale \div 2) \div Scale, (wp[2] - Scale \div 2) \div Scale>>

Adjacent(c, d) == Abs(c[1] - d[1]) + Abs(c[2] - d[2]) = 1

WellFormedRoute(bs, from, to, path) ==
    /\ \A i \in 1..Len(path) :
          /\ CellOf(path[i]) \in (0..(Cols - 1)) \X (0..(Rows - 1))
          /\ path[i] = <<CellOf(path[i])[1] * Scale + Scale \div 2,
                         CellOf(path[i])[2] * Scale + Scale \div 2>>
          /\ ~isBlockedIn(bs, path[i][1], path[i][2])
    /\ Adjacent(CellOf(path[1]), <<NearestCell(from[1], Cols), NearestCell(from[2], Rows)>>)
    /\ \A i \in 1..(Len(path) - 1) : Adjacent(CellOf(path[i]), CellOf(path[i + 1]))
    /\ CellOf(path[Len(path)]) = <<NearestCell(to[1], Cols), NearestCell(to[2], Rows)>>

\* C10: whenever the planner returns a path, every waypoint is the centre of
\* a free cell of the grid, the first waypoint's cell is 4-adjacent to the
\* rounded, clamped start cell, consecutive waypoints are 4-adjacent, and the
\* last waypoint is the centre of the rounded, clamped target cell.  The
\* relocation handler keeps a cooldown entry exactly when the planner returned
\* a path, which it then queues as returned.
C10_PlannedRouteAvoidsBuildings ==
    [][\A call \in inflight, id \in AgentIds, target \in PlannerTargets :
          (/\ call.kind = "maintainEnergy"
           /\ MaintainEnergyRelocation(call, id, target)
           /\ id \in DOMAIN latest
           /\ id \in DOMAIN pathCooldown')
             => WellFormedRoute(call.scene, latest[id], target, pathQueue'[id])]_vars

\* A route around a building is queued: it starts in a blocked start cell's
\* neighbourhood or detours, so it has both a horizontal and a vertical leg.
C10_Witness ==
    /\ buildings # {}
    /\ \E id \in DOMAIN pathQueue :
          /\ Len(pathQueue[id]) >= 4
          /\ \E i \in 1..(Len(pathQueue[id]) - 1) :
                pathQueue[id][i][1] # pathQueue[id][i + 1][1]
          /\ \E i \in 1..(Len(pathQueue[id]) - 1) :
                pathQueue[id][i][2] # pathQueue[id][i + 1][2]

\* The cells a 4-connected route from cell c can reach: c's free neighbours,
\* their free neighbours, and so on (c itself need not be free).
FreeCells(bs) ==
    {c \in (0..(Cols - 1)) \X (0..(Rows - 1)) :
        ~isBlockedIn(bs, c[1] * Scale, c[2] * Scale)}

RECURSIVE RouteClosure(_, _)
RouteClosure(bs, S) ==
    LET N == S \cup {d \in FreeCells(bs) : \E c \in S : Adjacent(c, d)}
    IN  IF N = S THEN S ELSE RouteClosure(bs, N)

CellsReachableFrom(bs, c) == RouteClosure(bs, {c})

NearestCellOf(pos) == <<NearestCell(pos[1], Cols), NearestCell(pos[2], Rows)>>

\* C11: computePath returns null when the rounded, clamped target cell is
\* covered by a building, when no 4-connected route leads to it, and when it
\* is the start cell; and a list it returns is never empty.
C11_NullWhenNoRoute ==
    [][\A call \in inflight, target \in PlannerTargets :
          (/\ call.kind = "maintainEnergy"
           /\ call.agentId \in DOMAIN latest
           /\ MaintainEnergyRelocation(call, call.agentId, target))
             => LET r == computePathOutcome(call.scene, latest[call.agentId], target)
                    start == NearestCellOf(latest[call.agentId])
                    goal == NearestCellOf(target)
                IN  /\ (\/ goal \notin FreeCells(call.scene)
                        \/ goal \notin CellsReachableFrom(call.scene, start)
                        \/ goal = start) => r.kind = "null"
                    /\ r.kind = "path" => Len(r.waypoints) >= 1]_vars

\* The player, behind a wall that spans the grid, was sent to a free cell on
\* the other side: no route, and the handler fell back on the null result.
C11_Witness ==
    /\ buildings = {<<0, 2, 4, 1>>}
    /\ PLAYER_ID \in DOMAIN agents
    /\ agents[PLAYER_ID].position = <<200, 100>>
    /\ PLAYER_ID \notin DOMAIN queued


\* The outcome of computePath on a grid no search has touched.
FreshOutcome(bs, from, to) ==
    LET start == StartCell(from)
        goal == StartCell(to)
        rawPath == findPathOn({}, bs, start, goal).path
    IN  IF cols <= 0 \/ rows <= 0 THEN NullPath
        ELSE IF isBlockedIn(bs, goal[1] * Scale, goal[2] * Scale) THEN NullPath
        ELSE IF Len(rawPath) <= 1 THEN NullPath
        ELSE [kind |-> "path",
              waypoints |-> [i \in 1..(Len(rawPath) - 1) |-> CellCentre(rawPath[i + 1])]]

C13_ReconciledIdsAreSnapshotIds ==
    [][\A s \in Snapshots :
          SceneSnapshot(s) => /\ DOMAIN agents' = DOMAIN s
                              /\ DOMAIN persisted' = DOMAIN s]_vars

\* A snapshot without the other agent was reconciled: its records are gone
\* and the player's are kept.
C13_Witness ==
    /\ inputs > 0
    /\ DOMAIN agents = {PLAYER_ID}
    /\ DOMAIN persisted = {PLAYER_ID}

\* The timestamp of the local record: updatedAt ?? 0.
LocalTs(id) == IncomingTs(agents[id])

\* C14: reconciling a snapshot whose entry for an agent is not newer than the
\* local record leaves that agent's record as it was: same position, same
\* timestamp (an absent one counting as 0), same directives.
C14_NotNewerSnapshotKeepsRecord ==
    [][\A s \in Snapshots : \A id \in DOMAIN s \cap DOMAIN agents \cap DOMAIN persisted :
          (/\ SceneSnapshot(s)
           /\ IncomingTs(s[id]) <= persisted[id].updatedAt
           /\ IncomingTs(s[id]) <= LocalTs(id))
          => /\ agents'[id].position = agents[id].position
             /\ agents'[id].actions = agents[id].actions
             /\ IncomingTs(agents'[id]) = LocalTs(id)]_vars

\* What every relocation of a known agent leaves behind, with or without a
\* route: it tells the relocation steps apart before the planner is run.
RelocationTrace(id, target) ==
    \/ /\ id \in DOMAIN queued'
       /\ queued'[id] = [at |-> now, goal |-> CellCentre(StartCell(target)),
                         last |-> now]
    \/ /\ id \in DOMAIN lastSynced'
       /\ lastSynced'[id] = target

\* C15: a relocation named by a maintain_energy response for an agent of the
\* table either queues the planner's non-empty path, clears the directives and
\* leaves the position alone, or, without a path, puts the agent on the
\* target with the current time as timestamp, clears the directives and sets
\* the persisted, latest and last-synced records to the target.
C15_RelocationQueuesOrSnaps ==
    [][\A call \in inflight, id \in DOMAIN agents, target \in RelocationTargets :
          (/\ call.kind = "maintainEnergy"
           /\ RelocationTrace(id, target)
           /\ MaintainEnergyRelocation(call, id, target))
          => \A outcome \in {computePathOutcome(call.scene, latest[id], target)} :
                 IF outcome.kind = "path"
                 THEN /\ pathQueue'[id] = outcome.waypoints
                      /\ agents'[id].actions = {}
                      /\ agents'[id].position = agents[id].position
                 ELSE /\ agents'[id].position = target
                      /\ agents'[id].updatedAt = now
                      /\ agents'[id].actions = {}
                      /\ persisted'[id].position = target
                      /\ latest'[id] = target
                      /\ lastSynced'[id] = target]_vars

\* One agent was given a path while it had a directive, the other was put on
\* its target.
C15_Witness ==
    /\ \E id \in DOMAIN queued \cap DOMAIN agents :
          /\ queued[id].at = now
          /\ pathQueue[id] # <<>>
          /\ agents[id].actions = {}
    /\ \E id \in DOMAIN lastLocal \cap DOMAIN agents :
          /\ agents[id].position \in RelocationTargets
          /\ persisted[id].position = agents[id].position
          /\ lastSynced[id] = agents[id].position
          /\ agents[id].updatedAt = now

\* C16: when the planner finds no route to the target of a relocation, the
\* agent's position after the handler equals its position before.
C16_NoRouteLeavesAgentInPlace ==
    [][\A call \in inflight, id \in DOMAIN agents, target \in RelocationTargets :
          (/\ call.kind = "maintainEnergy"
           /\ MaintainEnergyRelocation(call, id, target)
           /\ computePath(call.scene, latest[id], target) = <<>>)
          => agents'[id].position = agents[id].position]_vars

\* C17: issuing a maintain_energy command and the failure of its remote call
\* change no agent's position, timestamp or directives, nor the path queue,
\* nor the path cooldowns.
C17_FailedMaintainEnergyChangesNothing ==
    [][(\/ \E id \in AgentIds : MaintainEnergyCommand(id)
        \/ \E call \in inflight : MaintainEnergyFailed(call))
       => /\ agents' = agents
          /\ pathQueue' = pathQueue
          /\ pathCooldown' = pathCooldown]_vars

\* A maintain_energy call failed while its agent was following a path.
C17_Witness ==
    /\ "maintainEnergy" \in warned
    /\ inflight = {}
    /\ \E id \in DOMAIN pathCooldown : pathQueue[id] # <<>>

\* The failure continuation of some remote call runs.
RemoteCallFailed ==
    \/ LogActionFailed
    \/ \E call \in inflight : MaintainEnergyFailed(call)
    \/ \E call \in inflight : UpdatePositionFailed(call)

\* C18: the failure of a remote call (updatePosition, maintainEnergy,
\* logAction) is logged and leaves no rejection without a handler.
C18_RemoteFailureRecoveredLocally ==
    [][RemoteCallFailed => (warned' # {} /\ ~unhandled')]_vars

\* The player's position has stopped changing, no updatePosition call is in
\* flight, none has failed, and the sync timer finds no drift: no further
\* call will be issued.
SyncQuiescent ==
    /\ PLAYER_ID \in DOMAIN latest
    /\ keyState = {}
    /\ agents[PLAYER_ID].actions = {}
    /\ ActivePath(PLAYER_ID) = <<>>
    /\ \A call \in inflight : call.kind # "updatePosition"
    /\ "updatePosition" \notin warned
    /\ ~Drifted(PLAYER_ID)

\* C19: once the player's position has stopped changing and every
\* updatePosition call has completed successfully, in whatever order, the
\* position last applied at the store is within the sync epsilon of the local
\* position on both axes.
C19_StoreMatchesLocalWhenQuiescent ==
    (SyncQuiescent /\ PLAYER_ID \in DOMAIN applied)
    => /\ Abs(applied[PLAYER_ID][1] - latest[PLAYER_ID][1]) <= EPSILON
       /\ Abs(applied[PLAYER_ID][2] - latest[PLAYER_ID][2]) <= EPSILON

\* C20: once the controller is unmounted nothing changes the agent table or
\* the persisted, latest, last-synced, path-queue or cooldown maps, and no
\* remote call is issued, also while calls that were in flight complete.
C20_NothingChangesAfterTeardown ==
    [][~mounted => /\ UNCHANGED <<agents, persisted, latest, lastSynced,
                                  pathQueue, pathCooldown>>
                   /\ \A call \in inflight' :
                         \E old \in inflight : /\ old.kind = call.kind
                                               /\ old.agentId = call.agentId
                                               /\ old.position = call.position
                   /\ logCalls' <= logCalls]_vars

\* The continuation of a call runs: the response of an updatePosition call,
\* or a maintain_energy response relocating the agent the call was issued for.
ContinuationOf(call) ==
    \/ UpdatePositionDone(call)
    \/ \E target \in TeardownTargets :
          MaintainEnergyRelocation(call, call.agentId, target)

\* C21: when the agent of a call in flight has left the agent table, the
\* call's continuation changes none of the agent table, the persisted, latest
\* and last-synced positions, the path queue and the path cooldowns.
C21_ContinuationForRemovedAgentIsNoOp ==
    [][\A call \in inflight :
          (call.agentId \notin DOMAIN agents /\ ContinuationOf(call))
          => UNCHANGED <<agents, persisted, latest, lastSynced,
                         pathQueue, pathCooldown>>]_vars

\* C22: every tick that finds a non-empty queued path for an agent leaves
\* that agent without directives, also when the tick is skipped by the
\* path-follow delay or its step is rejected.
C22_ActivePathClearsDirectives ==
    [][(now' # now /\ TickStep) =>
         \A id \in DOMAIN agents :
            Len(ActivePath(id)) > 0 => agents'[id].actions = {}]_vars

\* The tick makes a path-follow step for the agent: it had a queued path and
\* the tick moved it or took a waypoint off the path.
PathStep(id) ==
    /\ now' # now
    /\ TickStep
    /\ id \in DOMAIN agents
    /\ Len(ActivePath(id)) > 0
    /\ \/ agents'[id].position # agents[id].position
       \/ id \notin DOMAIN pathQueue'
       \/ pathQueue'[id] # pathQueue[id]

\* C23: a path-follow step happens at least PATH_DELAY_MS after the previous
\* step of the same path, and the first step of a path at least
\* PATH_DELAY_MS after the path was queued.
C23_PathStepsThrottled ==
    [][\A id \in DOMAIN queued :
          PathStep(id) => now' - queued[id].last >= PATH_DELAY_MS]_vars

\* The updatePosition calls a step issues: new, and not yet at the store.
IssuedUpdates ==
    {call \in inflight' \ inflight : call.kind = "updatePosition" /\ ~call.applied}

\* C24: a step issues at most one updatePosition call, for the player, with
\* its latest position, and only when the player has no last-synced position
\* or the latest one is more than the epsilon away from it on some axis; a
\* last-synced position changes only to the position sent by an
\* updatePosition call that succeeds in that step, or to the target of a
\* relocation without a route, and never when a call fails.
C24_PositionSyncRule ==
    [][/\ Cardinality(IssuedUpdates) <= 1
       /\ \A call \in IssuedUpdates :
             /\ call.agentId = PLAYER_ID
             /\ call.position = latest[PLAYER_ID]
             /\ \/ PLAYER_ID \notin DOMAIN lastSynced
                \/ Abs(lastSynced[PLAYER_ID][1] - latest[PLAYER_ID][1]) > EPSILON
                \/ Abs(lastSynced[PLAYER_ID][2] - latest[PLAYER_ID][2]) > EPSILON
       /\ \A id \in DOMAIN lastSynced :
             lastSynced'[id] # lastSynced[id]
             => /\ warned' = warned
                /\ \/ \E call \in inflight \ inflight' :
                         /\ call.kind = "updatePosition"
                         /\ call.agentId = id
                         /\ lastSynced'[id] = call.position
                   \/ \E call \in inflight \ inflight' :
                         /\ call.kind = "maintainEnergy"
                         /\ id \notin DOMAIN pathCooldown'
                         /\ persisted'[id].position = lastSynced'[id]
                         /\ latest'[id] = lastSynced'[id]]_vars

\* One updatePosition call has failed and another has succeeded: the
\* last-synced position of the player is the one the store applied, away
\* from where the player was mounted.
C24_Witness ==
    /\ "updatePosition" \in warned
    /\ PLAYER_ID \in DOMAIN applied
    /\ lastSynced[PLAYER_ID] = applied[PLAYER_ID]
    /\ lastSynced[PLAYER_ID] # <<390, 250>>
    /\ \A call \in inflight : call.kind # "updatePosition"

\* Breadth-first distance over free cells from cell `start` (which need not
\* be free) to cell `goal`: the number of steps of a shortest 4-connected
\* route, or Undefined when there is none.
RECURSIVE BfsLevels(_, _, _, _, _)
BfsLevels(bs, frontier, seen, goal, d) ==
    LET next == {c \in FreeCells(bs) \ seen : \E f \in frontier : Adjacent(f, c)}
    IN  IF goal \in next THEN d + 1
        ELSE IF next = {} THEN Undefined
        ELSE BfsLevels(bs, next, seen \cup next, goal, d + 1)

BfsDistance(bs, start, goal) ==
    IF start = goal THEN 0 ELSE BfsLevels(bs, {start}, {start}, goal, 0)

\* C25: a waypoint list returned by the planner is as long as a shortest
\* 4-connected route from the start cell to the target cell, and the planner
\* returns null exactly when that distance is 0 or undefined or the target
\* cell is blocked.
C25_PlannerReturnsShortestRoute ==
    [][\A call \in inflight, target \in PlannerTargets :
          (/\ call.kind = "maintainEnergy"
           /\ call.agentId \in DOMAIN latest
           /\ MaintainEnergyRelocation(call, call.agentId, target))
          => LET id == call.agentId
                 start == NearestCellOf(latest[id])
                 goal == NearestCellOf(target)
                 d == BfsDistance(call.scene, start, goal)
                 none == goal \notin FreeCells(call.scene) \/ d = 0 \/ d = Undefined
             IN  IF none
                 THEN id \notin DOMAIN pathCooldown'
                 ELSE /\ id \in DOMAIN pathCooldown'
                      /\ Len(pathQueue'[id]) = d]_vars

\* A route of five steps around a wall was queued, where the straight line
\* between the two cells is shorter.
C25_Witness ==
    \E id \in DOMAIN queued \cap DOMAIN pathQueue \cap DOMAIN latest :
       /\ queued[id].at = now
       /\ Len(pathQueue[id]) >= 5
       /\ Len(pathQueue[id]) >
            Abs(NearestCellOf(latest[id])[1] - CellOf(queued[id].goal)[1])
            + Abs(NearestCellOf(latest[id])[2] - CellOf(queued[id].goal)[2])

\* ------------------------------------------------------------------ C26
GridCells == (0..(cols - 1)) \X (0..(rows - 1))

ReachesOutside(b) == b[1] + b[3] > cols \/ b[2] + b[4] > rows \/ b[1] < 0 \/ b[2] < 0

\* C26: for integer rectangles and every integer cell of the grid, the
\* navigation grid marks the cell unwalkable exactly when isBlocked holds at
\* the cell's integer coordinates, and exactly when it holds at the cell's
\* centre; a rectangle that reaches outside the grid marks only cells of the
\* grid.
C26_ObstacleRepresentationsAgree ==
    /\ Unwalkable(buildings) \subseteq GridCells
    /\ \A c \in GridCells :
          /\ (~isWalkableAt(buildings, c)) = isBlocked(c[1] * Scale, c[2] * Scale)
          /\ (~isWalkableAt(buildings, c)) =
                isBlocked(c[1] * Scale + Scale \div 2, c[2] * Scale + Scale \div 2)

\* A route was planned on a layout with a rectangle that reaches outside the
\* grid and covers cells inside it.
C26_Witness ==
    /\ DOMAIN queued # {}
    /\ \E b \in buildings :
          /\ ReachesOutside(b)
          /\ \E c \in GridCells : isBlockedIn({b}, c[1] * Scale, c[2] * Scale)
          /\ \E c \in GridCells : ~isBlocked(c[1] * Scale, c[2] * Scale)

\* Snapshots that place agents on cell centres, where the planner's waypoints
\* lie, while a path is being walked.
CentrePositions == {<<350, 250>>, <<250, 150>>}
CentreSnapshots ==
    UNION {[ids -> [position : CentrePositions, actions : SnapshotActions,
                    updatedAt : SnapshotTimes]] : ids \in SUBSET AgentIds}

NextWaypoint ==
    \/ \E dt \in ClockSteps : Tick(dt)
    \/ \E s \in CentreSnapshots : SceneSnapshot(s)
    \/ \E id \in AgentIds : MaintainEnergyCommand(id)
    \/ \E call \in inflight, target \in RelocationTargets :
          MaintainEnergyRelocation(call, call.agentId, target)
    \/ \E call \in inflight : MaintainEnergySettled(call)

SpecWaypoint == Init /\ [][NextWaypoint]_vars

\* ------------------------------------------------------------------ C27
\* C27: a tick that leaves an agent with a queued path at the same position
\* leaves its queued path the same sequence of waypoints.
C27_RejectedStepKeepsPath ==
    [][\A dt \in ClockSteps :
          (now' = now + dt /\ Tick(dt))
          => \A id \in DOMAIN agents \cap DOMAIN pathQueue :
                (Len(pathQueue[id]) > 0 /\ agents'[id].position = agents[id].position)
                => (id \in DOMAIN pathQueue' /\ pathQueue'[id] = pathQueue[id])]_vars

\* ------------------------------------------------------------------ C28
\* C28: the queued paths, the path cooldowns and the last-synced positions
\* have entries only for agents of the agent table.
C28_RefsHoldOnlyCurrentAgents ==
    (DOMAIN pathQueue \cup DOMAIN pathCooldown \cup DOMAIN lastSynced) \subseteq DOMAIN agents

\* ------------------------------------------------------------------ C29
\* C29: every tick on which the player has no queued path and a movement key
\* is held since its key-down, with no key-up since, applies that key's
\* displacement to the player, also when snapshots arrived in between.

\* The frame loop moves the player by the keys of keyState, so the held key
\* drives the player exactly as long as it stays there: every step other
\* than the key's own key-up must keep a key of keyState in keyState.
C29_HeldKeyKeepsDriving ==
    [][\A key \in keyState : key \in keyState' \/ handleKeyUp(key)]_vars

\* ------------------------------------------------------------------ C30
\* C30: the timestamp of an agent's persisted record never decreases, over
\* ticks, relocations and reconciliations, as long as the record exists.
C30_PersistedTimestampMonotonic ==
    [][\A id \in DOMAIN persisted \cap DOMAIN persisted' :
          persisted'[id].updatedAt >= persisted[id].updatedAt]_vars
====
